---------------------------- MODULE Spec2Model ----------------------------
(***************************************************************************)
(* A model of the logic-bearing core of brand-sop-v2:                      *)
(*   - the Rolling Store Writer, utils/upload.py append_rolling_data, over *)
(*     the worksheet "Loadshare Dump" of the dump spreadsheet;             *)
(*   - the Pivot Builder, utils/process.py create_pivot and convert_df.    *)
(*   - the Layout Synthesizer, utils/creator.py;                           *)
(*   - the Sheet Identifier Registry, utils/sheet_manager.py.              *)
(* Specification Spec is the rolling worksheet under any sequence of       *)
(* append_rolling_data calls; PivotSpec applies create_pivot to bounded    *)
(* dump tables; the other specifications are introduced where they are     *)
(* defined.                                                                *)
(***************************************************************************)
EXTENDS Integers, Sequences, FiniteSets, TLC

(***************************************************************************)
(* Bounds of the model.                                                    *)
(***************************************************************************)
\* the largest number of rows of one uploaded DataFrame
MaxNew == 3
\* the largest max_rows argument a call is given
MaxCap == 5
\* data rows are numbered 1..MaxId in upload order
MaxId == 7
\* the largest number of rows of a dump table handed to create_pivot
MaxDf == 2

VARIABLES
    \* the worksheet "Loadshare Dump"
    exists,      \* sheet.worksheet(sheet_name) finds it
    table,       \* its rows as worksheet.get_all_values() returns them
    nextId,      \* the number of the next uploaded data row
    last,        \* what the latest append_rolling_data call was given and did
    \* create_pivot
    df,          \* the dump DataFrame handed to create_pivot
    pc,          \* "start" before the call, "done" after it ("idle" under Spec)
    args,        \* the call's dates and brand
    breakdown,   \* new_df as written to temp/breakdown.csv
    pivot,       \* the returned pivot table
    \* the other components, each idle outside its own specification
    layout,      \* create_excel_from_breakdown: its inputs and its document
    reg,         \* the sheet identifier registry and what the pages reported
    ops,         \* the config collection, the sheets and files, and the latest
                 \* call of process_breakdown / upload / upload_excel / Save Config
    procs        \* append_rolling_data calls in progress, step by step

rollVars == <<exists, table, nextId, last>>
pivotVars == <<df, pc, args, breakdown, pivot>>
extraVars == <<layout, reg, ops, procs>>
vars == <<exists, table, nextId, last, df, pc, args, breakdown, pivot,
          layout, reg, ops, procs>>

\* a component that is not in use
Idle == [pc |-> "idle"]
ExtraIdle == layout = Idle /\ reg = Idle /\ ops = Idle /\ procs = Idle

Min(a, b) == IF a < b THEN a ELSE b

Range(s) == {s[i] : i \in DOMAIN s}

(***************************************************************************)
(* Rows.  A worksheet row is a record of its cells: the row's number (the  *)
(* waybill, never empty) and one further cell.  Row 1 of a worksheet this  *)
(* program creates is the uploaded DataFrame's column names.               *)
(***************************************************************************)
\* df.columns.tolist()
Header == [id |-> 0, cell |-> "Amount payable"]

\* the value of the further cell of uploaded row i, as pandas read it
DfCell(i) == CASE i % 3 = 0 -> "NaN"
               [] i % 3 = 1 -> "abc"
               [] OTHER     -> "7"

\* the rows i..j of an uploaded DataFrame
DfRows(i, j) == [k \in 1..(j - i + 1) |-> [id |-> i + k - 1, cell |-> DfCell(i + k - 1)]]

\* one value through sanitize_dataframe: NaN and inf become '', a number its
\* float, anything else its string
SanitizeCell(v) == CASE v = "NaN" -> ""
                     [] v = "inf" -> ""
                     [] v = "7"   -> "7.0"
                     [] OTHER     -> v

sanitize_dataframe(rows) == [k \in DOMAIN rows |-> [id |-> rows[k].id, cell |-> SanitizeCell(rows[k].cell)]]

(***************************************************************************)
(* The Spreadsheet Gateway calls append_rolling_data makes.                *)
(***************************************************************************)
\* worksheet.delete_rows(start_index, end_index): 1-based, both ends inclusive
delete_rows(t, start_index, end_index) ==
    LET keep == {i \in 1..Len(t) : i < start_index \/ i > end_index}
        n == Cardinality(keep)
        before == Cardinality({i \in keep : i < start_index})
    IN [k \in 1..n |-> IF k <= before THEN t[k] ELSE t[k + (Len(t) - n)]]

\* worksheet.append_rows(values): after the last row that holds a value
append_rows(t, values) == t \o values

\* the guard with a fault: only `df is None`
IsEmptyDfNoneOnly(d) == d.isNone

\* `df is None or df.empty`
IsEmptyDf(d) == d.isNone \/ Len(d.rows) = 0

(***************************************************************************)
(* append_rolling_data, lines 205-236: what to delete before appending.    *)
(***************************************************************************)
\* rows_to_delete with a fault: no clamp; >= for >; the data rows counted
\* without the header
RowsToDeleteNoClamp(current_row_count, new_row_count, max_rows) ==
    IF current_row_count + new_row_count > max_rows
    THEN current_row_count + new_row_count - max_rows
    ELSE 0

RowsToDeleteGe(current_row_count, new_row_count, max_rows) ==
    IF current_row_count + new_row_count >= max_rows
    THEN Min(current_row_count + new_row_count - max_rows + 1, current_row_count - 1)
    ELSE 0

RowsToDeleteDataOnly(current_row_count, new_row_count, max_rows) ==
    IF current_row_count + new_row_count > max_rows
    THEN Min((current_row_count - 1) + new_row_count - max_rows, current_row_count - 1)
    ELSE 0

\* rows_to_delete as line 230 reads it; 0 where the code leaves it unset
RowsToDelete(current_row_count, new_row_count, max_rows) ==
    IF current_row_count + new_row_count > max_rows
    THEN LET rows_to_delete == current_row_count + new_row_count - max_rows
             max_deletable == current_row_count - 1
         IN IF rows_to_delete > max_deletable THEN max_deletable ELSE rows_to_delete
    ELSE 0

\* start_index with a fault: the deletion starts at the header
StartIndexHeader == 2 - 1

start_index == 2

\* the delete step, lines 230-236: the table after it
DeleteStep(t, rows_to_delete) ==
    IF rows_to_delete > 0
    THEN delete_rows(t, start_index, start_index + rows_to_delete - 1)
    ELSE t

\* the creation branch with a fault: the header is left out
CreateValuesNoHeader(d) == sanitize_dataframe(d.rows)

\* lines 197-199: values = headers + data_rows
CreateValues(d) == <<Header>> \o sanitize_dataframe(d.rows)

\* the page with a fault: the exception is swallowed
PageMessageSwallowed(result) == "success"

\* the Upload Data button, lines 67-76: st.success when the call returns,
\* st.error when it raises
PageMessage(result) == IF result = "error" THEN "error" ELSE "success"

(***************************************************************************)
(* The places where a gateway call of append_rolling_data can raise.  A    *)
(* call that raises has changed nothing itself.                            *)
(*   "early"  before the first mutation: the sheet is opened and the       *)
(*            worksheet looked up (lines 175-190), created (194) or read   *)
(*            (206), or delete_rows itself raises (235)                    *)
(*   "update" line 201, after add_worksheet created the worksheet          *)
(*   "append" line 242, after the delete step                              *)
(***************************************************************************)
FailPoints == {"none", "early", "update", "append"}

\* the places on the path of a call with a non-empty DataFrame
FailPointsOf(ex) == IF ex THEN {"none", "early", "append"} ELSE {"none", "early", "update"}

\* the call's outcome: the worksheet afterwards, the rows delete_rows was
\* asked to delete, and how the call ended
Outcome(d, max_rows, fail) ==
    IF IsEmptyDf(d)
    THEN [exists |-> exists, table |-> table, deleted |-> 0, result |-> "noop"]
    ELSE IF fail = "early"
    THEN [exists |-> exists, table |-> table, deleted |-> 0, result |-> "error"]
    ELSE IF ~exists
    THEN IF fail = "update"
         THEN [exists |-> TRUE, table |-> <<>>, deleted |-> 0, result |-> "error"]
         ELSE [exists |-> TRUE, table |-> CreateValues(d),
               deleted |-> 0, result |-> "ok"]
    ELSE LET current_row_count == Len(table)
             new_row_count == Len(d.rows)
             rows_to_delete == RowsToDelete(current_row_count, new_row_count, max_rows)
             after == DeleteStep(table, rows_to_delete)
             n == IF rows_to_delete > 0 THEN rows_to_delete ELSE 0
         IN IF fail = "append"
            THEN [exists |-> TRUE, table |-> after, deleted |-> n, result |-> "error"]
            ELSE [exists |-> TRUE, table |-> append_rows(after, sanitize_dataframe(d.rows)),
                  deleted |-> n, result |-> "ok"]

\* append_rolling_data(df, table_name, sheet_name, max_rows)
append_rolling_data(d, max_rows, fail) ==
    LET o == Outcome(d, max_rows, fail)
    IN /\ exists' = o.exists
       /\ table' = o.table
       /\ nextId' = IF d.isNone THEN nextId ELSE nextId + Len(d.rows)
       /\ last' = [isNone |-> d.isNone,
                   rows |-> IF d.isNone THEN <<>> ELSE d.rows,
                   max_rows |-> max_rows,
                   fail |-> fail,
                   pre_exists |-> exists,
                   pre |-> table,
                   deleted |-> o.deleted,
                   result |-> o.result,
                   message |-> PageMessage(o.result)]
       /\ UNCHANGED pivotVars
       /\ UNCHANGED extraVars

\* the Upload Data button: a DataFrame of N rows, or none
UploadData ==
    \E N \in 0..MaxNew, max_rows \in 1..MaxCap, fail \in FailPoints :
        /\ nextId + N - 1 <= MaxId
        /\ fail \in (IF N = 0 THEN {"none"} ELSE FailPointsOf(exists))
        /\ append_rolling_data([isNone |-> FALSE, rows |-> DfRows(nextId, nextId + N - 1)],
                               max_rows, fail)

UploadNone ==
    \E max_rows \in 1..MaxCap :
        append_rolling_data([isNone |-> TRUE, rows |-> <<>>], max_rows, "none")

NoCall == [isNone |-> TRUE, rows |-> <<>>, max_rows |-> 1, fail |-> "none",
           pre_exists |-> FALSE, pre |-> <<>>, deleted |-> 0, result |-> "init",
           message |-> ""]

\* the worksheet is absent, or an operator made it with the header alone
InitRoll ==
    /\ exists \in BOOLEAN
    /\ table = IF exists THEN <<Header>> ELSE <<>>
    /\ nextId = 1
    /\ last = NoCall

InitPivotIdle ==
    /\ df = [columns |-> <<>>, rows |-> <<>>]
    /\ pc = "idle"
    /\ args = [start_date |-> 0, end_date |-> 0, brand |-> ""]
    /\ breakdown = [columns |-> <<>>, index |-> <<>>, rows |-> <<>>]
    /\ pivot = <<>>

Init == InitRoll /\ InitPivotIdle /\ ExtraIdle

Next == UploadData \/ UploadNone

Spec == Init /\ [][Next]_vars


(***************************************************************************)
(* The Pivot Builder.  A DataFrame is its column names in order and its    *)
(* rows, each a function from column name to value; row i has index label  *)
(* i - 1.  A 'Created Date' is a timestamp: a calendar day and the minute  *)
(* of that day.  Days 1, 2, 3 stand for 2024-01-01, -02, -03.              *)
(***************************************************************************)
Days == 1..3
MinutesOfDay == {0, 1439}
Timestamps == [day : Days, minute : MinutesOfDay]
\* the 'Customer Name' values of dump rows, and the brands a caller asks for
Customers == {"Acme", "acme"}
Brands == {"Acme", "acme", "Zed"}
\* the 'Amount payable' cells of dump rows, as get_all_values returns them
Amounts == {"10", "abc", ""}

DumpColumns == <<"Waybill No", "Customer Name", "Created Date", "Amount payable">>

DumpRow(waybill, customer, created, amount) ==
    [c \in Range(DumpColumns) |->
        CASE c = "Waybill No"     -> waybill
          [] c = "Customer Name"  -> customer
          [] c = "Created Date"   -> created
          [] OTHER                -> amount]

\* the dump tables of n rows
DumpsOfLen(n) ==
    {[columns |-> DumpColumns,
      rows |-> [i \in 1..n |-> DumpRow(100 + i, f[i][1], f[i][2], f[i][3])]] :
        f \in [1..n -> Customers \X Timestamps \X Amounts]}

\* three "Acme" rows dated day 1 to day 3 with amounts 10, 0, 5
ScenarioDump ==
    [columns |-> DumpColumns,
     rows |-> <<DumpRow(101, "Acme", [day |-> 1, minute |-> 0], "10"),
                DumpRow(102, "Acme", [day |-> 2, minute |-> 1439], "0"),
                DumpRow(103, "Acme", [day |-> 3, minute |-> 0], "5")>>]

\* the timestamp pd.to_datetime gives for an empty cell
NaT == [day |-> 0, minute |-> 0]

\* Series.dt.date: the calendar day of a timestamp
DtDate(ts) == ts.day

\* the date mask with a fault: the end date is taken as its midnight, so
\* the time of day counts
InRangeMidnight(ts, dates) ==
    /\ DtDate(ts) >= dates[1]
    /\ (ts.day < dates[2] \/ (ts.day = dates[2] /\ ts.minute = 0))

\* line 76: (date >= dates[0]) & (date <= dates[1]); the comparison of a
\* Series with a date is False where the Series holds NaT
InRange(ts, dates) == ts # NaT /\ DtDate(ts) >= dates[1] /\ DtDate(ts) <= dates[2]

\* str.lower() of the names of the model
Lower(s) == IF s = "Acme" THEN "acme" ELSE s

\* the brand test with a fault: the case is ignored
BrandMatchesAnyCase(customer, brand) == Lower(customer) = Lower(brand)

\* line 80: df["Customer Name"] == brand
BrandMatches(customer, brand) == customer = brand

\* lines 76-80: the rows kept, each with its index label
FilterRows(d, dates, brand) ==
    LET labelled == [i \in 1..Len(d.rows) |-> [label |-> i - 1, row |-> d.rows[i]]]
        InDates(x) == InRange(x.row["Created Date"], dates)
        OfBrand(x) == BrandMatches(x.row["Customer Name"], brand)
    IN SelectSeq(SelectSeq(labelled, InDates), OfBrand)

(***************************************************************************)
(* convert_df                                                              *)
(***************************************************************************)
columns_to_copy ==
    <<"Customer Name", "Created Date", "Location", "Employee Name", "Employee Number",
      "Amount payable", "Status", "POD Date", "Delivery Payment type", "Pincode",
      "Order Category">>

column_mapping ==
    [c \in Range(columns_to_copy) |->
        CASE c = "Customer Name"   -> "Brand/Customer Name"
          [] c = "Created Date"    -> "Creation Date"
          [] c = "Location"        -> "Partner Name/Location"
          [] c = "Employee Name"   -> "Rider Name/Employee Name"
          [] c = "Employee Number" -> "Rider ID/Employee Number"
          [] c = "Amount payable"  -> "COD Amount/Amount payable"
          [] c = "Status"          -> "Fulfillment Status/Status"
          [] c = "POD Date"        -> "Terminal Time/POD Date"
          [] OTHER                 -> c]

\* [c for c in columns_to_copy if c in df.columns]
CopiedColumns(columns) ==
    LET Present(c) == c \in Range(columns) IN SelectSeq(columns_to_copy, Present)

\* one row, with a fault: the columns keep their source names
ConvertRowNoRename(r, copied) == [c \in Range(copied) |-> r[c]]

\* one row through df[...].rename(columns=column_mapping)
ConvertRow(r, copied) ==
    [n \in {column_mapping[c] : c \in Range(copied)} |->
        r[CHOOSE c \in Range(copied) : column_mapping[c] = n]]

\* convert_df on the columns and the labelled rows of a DataFrame
convert_df(columns, labelled) ==
    LET copied == CopiedColumns(columns)
    IN [columns |-> [k \in DOMAIN copied |-> column_mapping[copied[k]]],
        index |-> [k \in DOMAIN labelled |-> labelled[k].label],
        rows |-> [k \in DOMAIN labelled |-> ConvertRow(labelled[k].row, copied)]]

(***************************************************************************)
(* create_pivot                                                            *)
(***************************************************************************)
\* the strings pd.to_numeric reads as numbers, with their values
NumericStrings == {"10", "0", "5"}
NumericValue(s) == CASE s = "10" -> 10 [] s = "5" -> 5 [] OTHER -> 0

\* pd.to_numeric(..., errors='coerce'): NaN for anything that is no number
to_numeric(s) ==
    IF s \in NumericStrings THEN [nan |-> FALSE, value |-> NumericValue(s)]
    ELSE [nan |-> TRUE, value |-> 0]

\* fillna(0) with a fault: NaN is filled with 1
FillNaOne(x) == IF x.nan THEN 1 ELSE x.value

\* .fillna(0)
FillNa(x) == IF x.nan THEN 0 ELSE x.value

RECURSIVE SumAmounts(_)
SumAmounts(rows) ==
    IF rows = <<>> THEN 0
    ELSE rows[1]["COD Amount/Amount payable"] + SumAmounts(Tail(rows))

\* lines 97-104: pd.pivot_table(index=brand, values=amount, aggfunc="sum",
\* fill_value=0): one aggregate per brand that has a row
PivotTable(rows) ==
    [b \in {rows[k]["Brand/Customer Name"] : k \in DOMAIN rows} |->
        SumAmounts(LET Of(r) == r["Brand/Customer Name"] = b IN SelectSeq(rows, Of))]

\* the reference id with a fault: taken by position, not by index label
ReferenceIdByPosition(d, kept, k) == d.rows[k]["Waybill No"]

\* line 88: df["Waybill No"].reindex(new_df.index), the value for row k
ReferenceId(d, kept, k) == kept[k].row["Waybill No"]

\* lines 84-91: new_df, the breakdown
Breakdown(d, dates, brand) ==
    LET kept == FilterRows(d, dates, brand)
        new_df == convert_df(d.columns, kept)
        Full(k) ==
            [n \in {"Source", "Reference ID/Waybill No"} \cup DOMAIN new_df.rows[k] |->
                CASE n = "Source" -> "LOADSHARE"
                  [] n = "Reference ID/Waybill No" -> ReferenceId(d, kept, k)
                  [] n = "COD Amount/Amount payable" -> FillNa(to_numeric(new_df.rows[k][n]))
                  [] OTHER -> new_df.rows[k][n]]
    IN [columns |-> <<"Source", "Reference ID/Waybill No">> \o new_df.columns,
        index |-> new_df.index,
        rows |-> [k \in DOMAIN kept |-> Full(k)]]

\* create_pivot(df, dates, brand)
create_pivot(dates, brand) ==
    /\ pc = "start"
    /\ LET new_df == Breakdown(df, dates, brand)
       IN /\ breakdown' = new_df
          /\ pivot' = PivotTable(new_df.rows)
    /\ args' = [start_date |-> dates[1], end_date |-> dates[2], brand |-> brand]
    /\ pc' = "done"
    /\ UNCHANGED <<df, exists, table, nextId, last>>
    /\ UNCHANGED extraVars

\* the Process button: any two dates and any brand
Process ==
    \E start_date \in Days, end_date \in Days, brand \in Brands :
        create_pivot(<<start_date, end_date>>, brand)

InitPivot ==
    /\ exists = FALSE /\ table = <<>> /\ nextId = 1 /\ last = NoCall
    /\ \/ \E n \in 0..MaxDf : df \in DumpsOfLen(n)
       \/ df = ScenarioDump
    /\ pc = "start"
    /\ args = [start_date |-> 0, end_date |-> 0, brand |-> ""]
    /\ breakdown = [columns |-> <<>>, index |-> <<>>, rows |-> <<>>]
    /\ pivot = <<>>
    /\ ExtraIdle

NextPivot == Process

PivotSpec == InitPivot /\ [][NextPivot]_vars

(***************************************************************************)
(* The latest append_rolling_data call, as the claims read it.             *)
(***************************************************************************)
\* C: the rows the worksheet held before the call, header included
PreCount == Len(last.pre)
\* N: the rows of the call's DataFrame
NewCount == Len(last.rows)
Called == last.result # "init"
\* the call got as far as its delete step
ReachedDelete == last.pre_exists /\ (last.result = "ok" \/ (last.result = "error" /\ last.fail = "append"))
NewRows == sanitize_dataframe(last.rows)

\* C1: after a call with N >= 1 rows on a worksheet that did not exist or
\* held at most max_rows rows, the worksheet holds at most max_rows rows,
\* header included.
C1_RowCountWithinMaxRows ==
    (Called /\ NewCount >= 1 /\ (~last.pre_exists \/ PreCount <= last.max_rows))
        => Len(table) <= last.max_rows

\* C2: when the worksheet exists with C >= 1 rows and C + N > max_rows, the
\* call deletes exactly min(C + N - max_rows, C - 1) rows.
C2_EvictedCount ==
    (ReachedDelete /\ PreCount >= 1 /\ PreCount + NewCount > last.max_rows)
        => last.deleted = Min(PreCount + NewCount - last.max_rows, PreCount - 1)

\* a call whose deletion was clamped to the C - 1 data rows
C2_ClampedEviction ==
    /\ last.result = "ok" /\ last.pre_exists /\ PreCount >= 2
    /\ PreCount + NewCount - last.max_rows > PreCount - 1
    /\ last.deleted = PreCount - 1
    /\ Len(table) = 1 + NewCount

\* C3: after a successful call the table is the header, then the old data
\* rows that followed the evicted block at positions 2..1+deleted, in their
\* order, then all N new rows in input order.
C3_HeaderSurvivorsThenNew ==
    (last.result = "ok")
        => table = <<Header>> \o SubSeq(last.pre, 2 + last.deleted, PreCount) \o NewRows

\* C4: when row 1 of the worksheet is the header, row 1 is the same header
\* after the call, whatever N and max_rows are and however the call ends.
C4_HeaderKept ==
    (Called /\ last.pre_exists /\ PreCount >= 1 /\ last.pre[1] = Header)
        => (Len(table) >= 1 /\ table[1] = Header)

\* a call with max_rows below the current size that deleted every data row
C4_AllDataRowsEvicted ==
    /\ last.result = "ok" /\ last.pre_exists /\ PreCount >= 2 /\ last.pre[1] = Header
    /\ last.max_rows < PreCount
    /\ last.deleted = PreCount - 1
    /\ table[1] = Header

\* C5: when the worksheet exists with C rows and C + N <= max_rows, a
\* successful call deletes nothing: the table is the previous table followed
\* by the N new rows, C + N rows in all.
C5_NoEvictionWithinCapacity ==
    (last.result = "ok" /\ last.pre_exists /\ PreCount + NewCount <= last.max_rows)
        => /\ last.deleted = 0
           /\ table = last.pre \o NewRows
           /\ Len(table) = PreCount + NewCount

\* a call that fills the worksheet exactly to max_rows
C5_FilledToCapacity ==
    /\ last.result = "ok" /\ last.pre_exists /\ PreCount >= 2 /\ NewCount >= 1
    /\ PreCount + NewCount = last.max_rows
    /\ Len(table) = last.max_rows

\* C6: a call with an empty DataFrame, or none, changes nothing in any table
\* state: no worksheet is created, no row deleted or appended, no error.
C6_EmptyIsNoOp ==
    (Called /\ (last.isNone \/ NewCount = 0))
        => /\ last.result = "noop"
           /\ exists = last.pre_exists
           /\ table = last.pre
           /\ last.deleted = 0

\* an empty DataFrame uploaded while the worksheet does not exist
C6_EmptyOnAbsentWorksheet ==
    /\ Called /\ ~last.isNone /\ NewCount = 0
    /\ ~last.pre_exists /\ ~exists

\* the scenario of C7: header and 4 data rows, max_rows = 5, 3 new rows
C7Scenario ==
    /\ last.result = "ok" /\ last.pre_exists
    /\ PreCount = 5 /\ last.pre[1] = Header
    /\ last.max_rows = 5 /\ NewCount = 3

\* C7 as stated: the scenario evicts exactly 4 + 3 - 5 = 2 rows and ends at
\* 5 rows.
C7_ScenarioEvictsTwo ==
    C7Scenario => (last.deleted = 2 /\ Len(table) = 5)

\* C7 as amended: the scenario evicts exactly 5 + 3 - 5 = 3 oldest data rows,
\* then appends 3, ending at 5 rows: the header, the newest old row and the
\* 3 new rows.
C7_ScenarioEvictsThree ==
    C7Scenario => /\ last.deleted = 3
                  /\ Len(table) = 5
                  /\ table = <<Header, last.pre[5]>> \o NewRows

C7_ScenarioReached ==
    C7Scenario /\ Len(table) = 5


(***************************************************************************)
(* The latest create_pivot call, as the claims read it.                    *)
(***************************************************************************)
\* source row i is a row of the breakdown
Included(i) == \E k \in DOMAIN breakdown.index : breakdown.index[k] = i - 1
\* the calendar day of source row i lies in [start_date, end_date]
DayInRange(i) ==
    /\ args.start_date <= df.rows[i]["Created Date"].day
    /\ df.rows[i]["Created Date"].day <= args.end_date
\* the amount of source row i as a number, 0 for what is no number
CoercedAmount(i) ==
    LET a == df.rows[i]["Amount payable"]
    IN IF a \in NumericStrings THEN NumericValue(a) ELSE 0
RECURSIVE SumIncluded(_)
\* the sum of the coerced amounts of the included rows among rows 1..n
SumIncluded(n) ==
    IF n = 0 THEN 0
    ELSE SumIncluded(n - 1) + (IF Included(n) THEN CoercedAmount(n) ELSE 0)

\* C8: create_pivot includes a source row iff the calendar day of its
\* 'Created Date' lies in [start_date, end_date], both ends included and at
\* any time of day, and its 'Customer Name' equals brand exactly.
C8_IncludedIffDayAndBrand ==
    (pc = "done") =>
        \A i \in 1..Len(df.rows) :
            Included(i) <=> (DayInRange(i) /\ df.rows[i]["Customer Name"] = args.brand)

\* a row dated end_date at the last minute of the day is included, and a row
\* in range whose name differs from brand only in case is not
C8_EndOfEndDateIncluded ==
    /\ pc = "done"
    /\ \E i \in 1..Len(df.rows) :
        /\ df.rows[i]["Created Date"] = [day |-> args.end_date, minute |-> 1439]
        /\ args.start_date < args.end_date
        /\ Included(i)
    /\ \E j \in 1..Len(df.rows) :
        /\ DayInRange(j)
        /\ df.rows[j]["Customer Name"] = "acme" /\ args.brand = "Acme"
        /\ ~Included(j)

\* the scenario of C9: three "Acme" rows dated day 1 to 3 with amounts
\* 10, 0, 5, asked for days 1 to 2 and brand "Acme"
C9Scenario ==
    /\ pc = "done" /\ df = ScenarioDump
    /\ args = [start_date |-> 1, end_date |-> 2, brand |-> "Acme"]

\* C9: the pivot value of the selected brand is the sum over the rows of the
\* breakdown of the amount, a non-numeric or missing amount counting 0; the
\* pivot holds no other value; the scenario gives 2 breakdown rows and 10.
C9_PivotIsSumOfCoercedAmounts ==
    (pc = "done") =>
        /\ \A b \in DOMAIN pivot : b = args.brand /\ pivot[b] = SumIncluded(Len(df.rows))
        /\ breakdown.rows # <<>> => args.brand \in DOMAIN pivot
        /\ \A k \in DOMAIN breakdown.rows :
               breakdown.rows[k]["COD Amount/Amount payable"] = CoercedAmount(breakdown.index[k] + 1)
        /\ C9Scenario => (Len(breakdown.rows) = 2 /\ pivot["Acme"] = 10)

C9_ScenarioReached ==
    C9Scenario /\ Len(breakdown.rows) = 2 /\ pivot["Acme"] = 10

\* no row of the dump has the brand, or none is dated within the range
NothingMatches ==
    \/ \A i \in 1..Len(df.rows) : df.rows[i]["Customer Name"] # args.brand
    \/ \A i \in 1..Len(df.rows) : ~DayInRange(i)

\* C10: when the brand matches no row, or the date range holds no row
\* (start_date > end_date included), create_pivot returns a breakdown of
\* zero rows and a pivot that is empty or all zero.
C10_NoMatchGivesEmpty ==
    (pc = "done" /\ NothingMatches) =>
        /\ Len(breakdown.rows) = 0
        /\ Len(breakdown.index) = 0
        /\ \A b \in DOMAIN pivot : pivot[b] = 0

\* a brand no row has, asked over a range that holds rows
C10_UnknownBrand ==
    /\ pc = "done" /\ args.brand = "Zed"
    /\ \E i \in 1..Len(df.rows) : DayInRange(i)
    /\ Len(breakdown.rows) = 0 /\ DOMAIN pivot = {}


(***************************************************************************)
(* The Layout Synthesizer, utils/creator.py.                               *)
(*                                                                         *)
(* A layout spec (config) has header lines, a number of blank lines, a     *)
(* column mapping and, optionally, the name of the UTR column.  The        *)
(* column mapping is a Python dict from target column to breakdown field:  *)
(* a dict is modelled as the sequence of its items [key, value] in         *)
(* insertion order, keys distinct.  The breakdown is the table             *)
(* pd.read_csv returns.  The document is the worksheet: the function from  *)
(* the coordinates <<row, column>> written with ws.cell to the values.     *)
(***************************************************************************)
MaxHeaders == 2
MaxGaps == 2
MaxCols == 2

\* header line i of a layout spec with n header lines
HeaderLines(n) == [i \in 1..n |-> <<"line", n - i>>]

TargetColumns == {"Name", "Amt", "UTR"}
BreakdownFields == {"Brand/Customer Name", "Pincode", "Rider"}

\* the column mappings with n items: distinct target columns, any fields
MappingsOfLen(n) ==
    {cm \in [1..n -> [key : TargetColumns, value : BreakdownFields]] :
        \A i, j \in 1..n : i # j => cm[i].key # cm[j].key}

\* a layout spec without the key utr_column_name
NoKey == "<no key>"
UtrColumnNames == {"UTR", "Amt", NoKey}

\* the breakdown tables of n rows: with every field but "Rider", or with
\* "Pincode" alone
BreakdownColumnSets == {<<"Brand/Customer Name", "Pincode">>, <<"Pincode">>}

\* the value of field c in breakdown row i
BreakdownValue(c, i) ==
    IF c = "Pincode" THEN <<"110001", "560002", "400003">>[((i - 1) % 3) + 1]
    ELSE <<"Acme", "Zed", "Bolt">>[((i - 1) % 3) + 1]

BreakdownsOfLen(n) ==
    {[columns |-> cols,
      rows |-> [i \in 1..n |-> [c \in Range(cols) |-> BreakdownValue(c, i)]]] :
        cols \in BreakdownColumnSets}

\* dict[key] = value: an existing key keeps its place and takes the value
DictSet(dict, key, value) ==
    IF \E i \in DOMAIN dict : dict[i].key = key
    THEN [i \in DOMAIN dict |-> IF dict[i].key = key THEN [key |-> key, value |-> value]
                                                    ELSE dict[i]]
    ELSE Append(dict, [key |-> key, value |-> value])

\* [''] * len(df_breakdown)
Blanks(n) == [i \in 1..n |-> ""]

\* lines 51-55: the field's column, or blanks when the breakdown lacks it
SourceColumn(d, old_col) ==
    IF old_col \in Range(d.columns)
    THEN [i \in 1..Len(d.rows) |-> d.rows[i][old_col]]
    ELSE Blanks(Len(d.rows))

\* lines 50-55: the loop over column_mapping.items(), the first k items
RECURSIVE MappedData(_, _, _)
MappedData(cm, d, k) ==
    IF k = 0 THEN <<>>
    ELSE DictSet(MappedData(cm, d, k - 1), cm[k].key, SourceColumn(d, cm[k].value))

\* config.get('utr_column_name', 'UTR')
utr_column(config) ==
    IF config.utr_column_name = NoKey THEN "UTR" ELSE config.utr_column_name

\* the UTR column with a fault: filled with the column's name
UtrValuesNamed(config, n) == [i \in 1..n |-> utr_column(config)]

\* line 59: the values of the UTR column
UtrValues(config, n) == Blanks(n)

\* lines 46-59: new_data
new_data(d, config) ==
    DictSet(MappedData(config.column_mapping, d, Len(config.column_mapping)),
            utr_column(config), UtrValues(config, Len(d.rows)))

\* the row of the column names, with a fault: the blank lines are not counted
HeaderRowNoGaps(config) == 1 + Len(config.headers)

\* lines 34-43 and 65: current_row after the header lines and the line gaps
HeaderRow(config) == 1 + Len(config.headers) + config.line_gaps

\* the data rows with a fault: written in reverse order
DataRowIndexReversed(n, i) == n + 1 - i

\* lines 75-77: data row i of the document is row i of df_new.values
DataRowIndex(n, i) == i

\* the worksheet create_excel_from_breakdown saves
create_excel_from_breakdown(d, config) ==
    LET nh == Len(config.headers)
        header_row == HeaderRow(config)
        df_new == new_data(d, config)
        n == Len(d.rows)
        HeaderCells == {<<r, 1>> : r \in 1..nh}
        NameCells == {<<header_row, c>> : c \in DOMAIN df_new}
        DataCells == {<<header_row + i, c>> : i \in 1..n, c \in DOMAIN df_new}
    IN [rc \in HeaderCells \cup NameCells \cup DataCells |->
           IF rc \in DataCells
           THEN df_new[rc[2]].value[DataRowIndex(n, rc[1] - header_row)]
           ELSE IF rc \in NameCells THEN df_new[rc[2]].key
           ELSE config.headers[rc[1]]]

\* one call of create_excel_from_breakdown
Synthesize ==
    /\ layout.pc = "start"
    /\ layout' = [pc |-> "done", config |-> layout.config, df |-> layout.df,
                  ws |-> create_excel_from_breakdown(layout.df, layout.config)]
    /\ UNCHANGED <<reg, ops, procs>>
    /\ UNCHANGED rollVars
    /\ UNCHANGED pivotVars

InitLayout ==
    /\ \E nh \in 0..MaxHeaders, line_gaps \in 0..MaxGaps, nc \in 0..MaxCols,
          utr \in UtrColumnNames, n \in 0..MaxDf :
         \E cm \in MappingsOfLen(nc), d \in BreakdownsOfLen(n) :
            layout = [pc |-> "start",
                      config |-> [headers |-> HeaderLines(nh), line_gaps |-> line_gaps,
                                  column_mapping |-> cm, utr_column_name |-> utr],
                      df |-> d]
    /\ reg = Idle /\ ops = Idle /\ procs = Idle
    /\ exists = FALSE /\ table = <<>> /\ nextId = 1 /\ last = NoCall
    /\ InitPivotIdle

NextLayout == Synthesize

LayoutSpec == InitLayout /\ [][NextLayout]_vars

\* the document read back: the cells of a row, and the rows in use
RowCells(ws, r) == {rc \in DOMAIN ws : rc[1] = r}
MaxRow(ws) == IF DOMAIN ws = {} THEN 0
              ELSE CHOOSE r \in {rc[1] : rc \in DOMAIN ws} :
                       \A rc \in DOMAIN ws : rc[1] <= r
LayoutDone == layout.pc = "done"
\* the first data row, when the breakdown has rows: the row of the first
\* value of the breakdown; with no rows, the row after the column names
FirstDataRow == MaxRow(layout.ws) - Len(layout.df.rows) + 1
\* the UTR column's name is also a target column of the mapping
UtrNameCollides(config) ==
    \E i \in DOMAIN config.column_mapping : config.column_mapping[i].key = utr_column(config)

\* C11: exactly len(headers) + line_gaps + 1 rows precede the first data
\* row: one row per header line in declared order, then line_gaps blank
\* rows, then the row of the column names.
C11_RowsBeforeData ==
    LayoutDone =>
        LET config == layout.config
            ws == layout.ws
            nh == Len(config.headers)
            first == FirstDataRow
        IN /\ first - 1 = nh + config.line_gaps + 1
           /\ \A r \in 1..nh : RowCells(ws, r) = {<<r, 1>>} /\ ws[<<r, 1>>] = config.headers[r]
           /\ \A r \in (nh + 1)..(nh + config.line_gaps) : RowCells(ws, r) = {}
           /\ RowCells(ws, first - 1) # {}
           /\ \A rc \in RowCells(ws, first - 1) : ws[rc] = new_data(layout.df, config)[rc[2]].key
           /\ \A r \in first..MaxRow(ws) :
                  \A rc \in RowCells(ws, r) :
                      ws[rc] = new_data(layout.df, config)[rc[2]].value[r - first + 1]

\* a document with two header lines, two blank rows and data rows
C11_HeadersGapsAndData ==
    /\ LayoutDone
    /\ Len(layout.config.headers) = 2 /\ layout.config.line_gaps = 2
    /\ Len(layout.df.rows) >= 1
    /\ FirstDataRow = 6

\* C12: every table row (the column names and each data row) has exactly
\* len(column_mapping) + 1 cells, and the last column is the UTR column:
\* named utr_column_name and empty in every data row.
C12_UtrColumnIsLast ==
    LayoutDone =>
        LET config == layout.config
            ws == layout.ws
            width == Len(config.column_mapping) + 1
        IN \A r \in (FirstDataRow - 1)..MaxRow(ws) :
              /\ RowCells(ws, r) = {<<r, c>> : c \in 1..width}
              /\ ws[<<r, width>>] = (IF r = FirstDataRow - 1 THEN utr_column(config) ELSE "")

\* the same, for the layout specs whose UTR column name is not a target
\* column of the mapping
C12_UtrColumnIsLastUnlessNamedAsTarget ==
    (LayoutDone /\ ~UtrNameCollides(layout.config)) => C12_UtrColumnIsLast

\* C13: one data row per breakdown row, in breakdown order; the cell of
\* data row i under target column t, in the mapping's declared order, is
\* breakdown row i's value of field column_mapping[t], and is empty when
\* the breakdown has no such field.
C13_DataRowsFollowMapping ==
    LayoutDone =>
        LET config == layout.config
            ws == layout.ws
            d == layout.df
            cm == config.column_mapping
        IN /\ MaxRow(ws) = HeaderRow(config) + Len(d.rows)
           /\ \A k \in DOMAIN cm :
                 /\ ws[<<HeaderRow(config), k>>] = cm[k].key
                 /\ \A i \in 1..Len(d.rows) :
                       ws[<<HeaderRow(config) + i, k>>] =
                           (IF cm[k].value \in Range(d.columns)
                            THEN d.rows[i][cm[k].value] ELSE "")

\* the same, for the layout specs whose UTR column name is not a target
\* column of the mapping
C13_DataRowsFollowMappingUnlessNamedAsTarget ==
    (LayoutDone /\ ~UtrNameCollides(layout.config)) => C13_DataRowsFollowMapping

(***************************************************************************)
(* The Column Remapper on its own: convert_df applied to tables with any   *)
(* set of source columns, mapped or not, in either order.                  *)
(***************************************************************************)
SourcePool == <<"Customer Name", "Amount payable", "Pincode", "Waybill No", "Remarks">>

Reverse(seq) == [i \in DOMAIN seq |-> seq[Len(seq) + 1 - i]]

\* the tables of n rows over the columns of pool that are in cols
SourceTable(pool, cols, n) ==
    LET Chosen(c) == c \in cols
        columns == SelectSeq(pool, Chosen)
    IN [columns |-> columns,
        rows |-> [i \in 1..n |-> [c \in Range(columns) |-> <<c, i>>]]]

\* the rows of a DataFrame with their index labels
Labelled(d) == [i \in 1..Len(d.rows) |-> [label |-> i - 1, row |-> d.rows[i]]]

\* one call of convert_df
ConvertDf ==
    /\ pc = "start"
    /\ breakdown' = convert_df(df.columns, Labelled(df))
    /\ pc' = "converted"
    /\ UNCHANGED <<df, args, pivot>>
    /\ UNCHANGED rollVars
    /\ UNCHANGED extraVars

InitConvert ==
    /\ \E cols \in SUBSET Range(SourcePool), pool \in {SourcePool, Reverse(SourcePool)},
          n \in 0..MaxDf :
         df = SourceTable(pool, cols, n)
    /\ pc = "start"
    /\ args = [start_date |-> 0, end_date |-> 0, brand |-> ""]
    /\ breakdown = [columns |-> <<>>, index |-> <<>>, rows |-> <<>>]
    /\ pivot = <<>>
    /\ exists = FALSE /\ table = <<>> /\ nextId = 1 /\ last = NoCall
    /\ ExtraIdle

NextConvert == ConvertDf

ConvertSpec == InitConvert /\ [][NextConvert]_vars

\* the source columns of the input that convert_df maps
MappedPresent == Range(df.columns) \cap Range(columns_to_copy)

None == "<None>"

Companies == {"Acme", "Zed"}
\* what fetch("configs/utr_config.json") returns: None when the document
\* is missing, or the layout specs, here their company names
ConfigCollections ==
    {[isNone |-> TRUE, data |-> <<>>]} \cup
    {[isNone |-> FALSE, data |-> data] : data \in {<<>>, <<"Acme">>, <<"Zed", "Acme">>}}
SheetIds == {None, "", "S1"}

\* get_company_config with a fault: the first layout spec is the default
GetCompanyConfigFirst(configs, company_name) ==
    IF configs.isNone THEN [raised |-> "TypeError"]
    ELSE IF configs.data # <<>> THEN [raised |-> "", config |-> configs.data[1]]
    ELSE [raised |-> "ValueError"]

\* get_company_config: the layout spec of the company, or ValueError;
\* iterating None raises TypeError
get_company_config(configs, company_name) ==
    IF configs.isNone THEN [raised |-> "TypeError"]
    ELSE IF \E i \in DOMAIN configs.data : configs.data[i] = company_name
         THEN [raised |-> "", config |-> company_name]
         ELSE [raised |-> "ValueError"]

\* process_breakdown: fetch, get_company_config, create_excel_from_breakdown
process_breakdown(configs, company_name, fail) ==
    LET found == get_company_config(configs, company_name)
    IN IF found.raised # "" THEN [result |-> found.raised, effects |-> <<>>]
       ELSE IF fail = "read" THEN [result |-> "IOError", effects |-> <<>>]
       ELSE IF fail = "write" THEN [result |-> "IOError", effects |-> <<>>]
       ELSE [result |-> "ok", effects |-> <<"wb.save">>]

\* `sheet_id or get_current_sheet_id(table_name)`
SheetIdOr(sheet_id, current) == IF sheet_id \in {None, ""} THEN current ELSE sheet_id

\* `not SHEET_ID`
Not(x) == x \in {None, ""}

\* upload: add_worksheet, or clear when add_worksheet raises, then update
upload(sheet_id, current, ws_exists, fail) ==
    LET SHEET_ID == SheetIdOr(sheet_id, current)
        prepared == IF ws_exists THEN <<"clear">> ELSE <<"add_worksheet">>
    IN IF Not(SHEET_ID) THEN [result |-> "ValueError", effects |-> <<>>]
       ELSE IF fail = "open" THEN [result |-> "APIError", effects |-> <<>>]
       ELSE IF fail = "update" THEN [result |-> "APIError", effects |-> prepared]
       ELSE [result |-> "ok", effects |-> Append(prepared, "update")]

\* upload_excel: delete the worksheet if present, add it, update, format
upload_excel(file_exists, sheet_id, current, ws_exists, fail) ==
    LET SHEET_ID == SheetIdOr(sheet_id, current)
        prepared == (IF ws_exists THEN <<"del_worksheet">> ELSE <<>>) \o <<"add_worksheet">>
    IN IF ~file_exists THEN [result |-> "FileNotFoundError", effects |-> <<>>]
       ELSE IF Not(SHEET_ID) THEN [result |-> "ValueError", effects |-> <<>>]
       ELSE IF fail = "read" THEN [result |-> "IOError", effects |-> <<>>]
       ELSE IF fail = "open" THEN [result |-> "APIError", effects |-> <<>>]
       ELSE IF fail = "update" THEN [result |-> "APIError", effects |-> prepared]
       ELSE [result |-> "ok", effects |-> prepared \o <<"update", "batch_update">>]

\* the worksheet after the effects of a call
WorksheetAfter(ws_exists, effects) ==
    IF \E i \in DOMAIN effects : effects[i] = "add_worksheet" THEN TRUE ELSE ws_exists

\* the state of the component after a call
AfterCall(op, company_name, sheet_id, fail, r) ==
    [pc |-> "ready", configs |-> ops.configs, current |-> ops.current,
     ws_exists |-> WorksheetAfter(ops.ws_exists, r.effects),
     file_exists |-> ops.file_exists \/ r.effects = <<"wb.save">>,
     call |-> [op |-> op, company_name |-> company_name, sheet_id |-> sheet_id,
               fail |-> fail, pre_ws |-> ops.ws_exists, pre_file |-> ops.file_exists,
               result |-> r.result, effects |-> r.effects]]

ProcessBreakdown ==
    /\ ops.pc = "ready"
    /\ \E company_name \in Companies, fail \in {"none", "read", "write"} :
          ops' = AfterCall("process_breakdown", company_name, None, fail,
                           process_breakdown(ops.configs, company_name, fail))
    /\ UNCHANGED <<layout, reg, procs>>
    /\ UNCHANGED rollVars
    /\ UNCHANGED pivotVars

Upload ==
    /\ ops.pc = "ready"
    /\ \E sheet_id \in SheetIds, fail \in {"none", "open", "update"} :
          ops' = AfterCall("upload", "", sheet_id, fail,
                           upload(sheet_id, ops.current, ops.ws_exists, fail))
    /\ UNCHANGED <<layout, reg, procs>>
    /\ UNCHANGED rollVars
    /\ UNCHANGED pivotVars

UploadExcel ==
    /\ ops.pc = "ready"
    /\ \E sheet_id \in SheetIds, fail \in {"none", "read", "open", "update"} :
          ops' = AfterCall("upload_excel", "", sheet_id, fail,
                           upload_excel(ops.file_exists, sheet_id, ops.current,
                                        ops.ws_exists, fail))
    /\ UNCHANGED <<layout, reg, procs>>
    /\ UNCHANGED rollVars
    /\ UNCHANGED pivotVars

InitOps ==
    /\ \E configs \in ConfigCollections, current \in SheetIds,
          ws_exists \in BOOLEAN :
         ops = [pc |-> "ready", configs |-> configs, current |-> current,
                ws_exists |-> ws_exists, file_exists |-> FALSE,
                call |-> [op |-> "", company_name |-> "", sheet_id |-> None,
                          fail |-> "none", pre_ws |-> ws_exists, pre_file |-> FALSE,
                          result |-> "", effects |-> <<>>]]
    /\ layout = Idle /\ reg = Idle /\ procs = Idle
    /\ exists = FALSE /\ table = <<>> /\ nextId = 1 /\ last = NoCall
    /\ InitPivotIdle

NextOps == ProcessBreakdown \/ Upload \/ UploadExcel

OpsSpec == InitOps /\ [][NextOps]_vars

\* the latest call met a configuration error: no layout spec for the
\* company, or no sheet identifier from the argument or the registry
NoLayoutSpec ==
    /\ ops.call.op = "process_breakdown"
    /\ \A i \in DOMAIN ops.configs.data : ops.configs.data[i] # ops.call.company_name
NoSheetId ==
    /\ ops.call.op \in {"upload", "upload_excel"}
    /\ ops.call.op = "upload_excel" => ops.call.pre_file
    /\ ops.call.sheet_id \in {None, ""}
    /\ ops.current \in {None, ""}

\* C15: a configuration error is raised to the caller and aborts
\* process_breakdown, upload and upload_excel before any file is written
\* and before any worksheet is created, cleared, deleted or written.
C15_ConfigErrorBeforeAnyEffect ==
    (ops.pc = "ready" /\ (NoLayoutSpec \/ NoSheetId)) =>
        /\ ops.call.result \in {"ValueError", "TypeError"}
        /\ ops.call.effects = <<>>
        /\ ops.ws_exists = ops.call.pre_ws
        /\ ops.file_exists = ops.call.pre_file

\* both kinds of configuration error, met where there was something to
\* lose: a collection without the company, and an existing worksheet
C15_UnknownCompany ==
    /\ ops.pc = "ready"
    /\ NoLayoutSpec /\ ops.configs.data # <<>>
    /\ ops.call.result = "ValueError"

C15_EmptySheetIdOnExistingWorksheet ==
    /\ ops.pc = "ready"
    /\ NoSheetId /\ ops.call.op = "upload_excel" /\ ops.call.pre_ws
    /\ ops.call.result = "ValueError"

(***************************************************************************)
(* The Sheet Identifier Registry, utils/sheet_manager.py, and the page     *)
(* handlers that write to it.                                              *)
(*                                                                         *)
(* Each logical table is a Supabase table of which the first row is used:  *)
(* rows[t] tells whether the row is present and the sheet_id it holds.     *)
(* reported[t] is the identifier of the latest save of t that the page     *)
(* reported as successful, None before any.                                *)
(***************************************************************************)
LogicalTables == {"brand_dump_sheet", "brand_pivot_table", "brand_utr_table"}

\* what the operator can type in the text input
SheetIdInputs == {"", " ", "A", " B "}

\* str.strip()
Strip(x) == CASE x = " " -> "" [] x = " B " -> "B" [] OTHER -> x

\* update_sheet_id: the first row takes the identifier; with no row, or
\* when Supabase raises, nothing changes and None is returned
update_sheet_id(row, new_sheet_id, fail) ==
    IF fail \/ ~row.present THEN row ELSE [present |-> TRUE, sheet_id |-> new_sheet_id]

\* get_current_sheet_id: the first row's sheet_id, None with no row or
\* when Supabase raises
get_current_sheet_id(row, fail) ==
    IF fail \/ ~row.present THEN None ELSE row.sheet_id

\* the argument of update_sheet_id in the Save Sheet ID handler of a page:
\* the Data Dump page passes the input as typed, the others strip it
SavedValue(t, input) == IF t = "brand_dump_sheet" THEN input ELSE Strip(input)

\* the Save Sheet ID button of the page of table t
SaveSheetId ==
    /\ reg.pc = "ready"
    /\ \E t \in LogicalTables, input \in SheetIdInputs, fail \in BOOLEAN :
          IF Strip(input) = ""
          THEN reg' = [reg EXCEPT !.last = [action |-> "Save Sheet ID", table |-> t,
                                            message |-> "error", changed |-> FALSE,
                                            value |-> input]]
          ELSE LET row == update_sheet_id(reg.rows[t], SavedValue(t, input), fail)
               IN reg' = [reg EXCEPT !.rows[t] = row,
                                     !.reported[t] = SavedValue(t, input),
                                     !.last = [action |-> "Save Sheet ID", table |-> t,
                                               message |-> "success",
                                               changed |-> row # reg.rows[t],
                                               value |-> SavedValue(t, input)]]
    /\ UNCHANGED <<layout, ops, procs>>
    /\ UNCHANGED rollVars
    /\ UNCHANGED pivotVars

\* the Process button of the pivot page, lines 108-115: the identifier in
\* use is stored before the pivot is made
ProcessPivot ==
    /\ reg.pc = "ready"
    /\ \E input \in SheetIdInputs, fail \in BOOLEAN :
          LET t == "brand_pivot_table"
              current == get_current_sheet_id(reg.rows[t], FALSE)
              sheet_id == Strip(IF input # "" THEN input
                                ELSE IF current # None THEN current ELSE "")
          IN IF sheet_id = ""
             THEN reg' = [reg EXCEPT !.last = [action |-> "Process", table |-> t,
                                               message |-> "error", changed |-> FALSE,
                                               value |-> sheet_id]]
             ELSE LET row == update_sheet_id(reg.rows[t], sheet_id, fail)
                  IN reg' = [reg EXCEPT !.rows[t] = row,
                                        !.last = [action |-> "Process", table |-> t,
                                                  message |-> "success",
                                                  changed |-> row # reg.rows[t],
                                                  value |-> sheet_id]]
    /\ UNCHANGED <<layout, ops, procs>>
    /\ UNCHANGED rollVars
    /\ UNCHANGED pivotVars

RegistryRows == {[present |-> FALSE, sheet_id |-> None], [present |-> TRUE, sheet_id |-> "A"]}

InitRegistry ==
    /\ \E rows \in [LogicalTables -> RegistryRows] :
          reg = [pc |-> "ready", rows |-> rows,
                 reported |-> [t \in LogicalTables |-> None],
                 last |-> [action |-> "", table |-> "", message |-> "",
                           changed |-> FALSE, value |-> ""]]
    /\ layout = Idle /\ ops = Idle /\ procs = Idle
    /\ exists = FALSE /\ table = <<>> /\ nextId = 1 /\ last = NoCall
    /\ InitPivotIdle

NextRegistry == SaveSheetId \/ ProcessPivot

RegistrySpec == InitRegistry /\ [][NextRegistry]_vars

\* the registry changes only through Save Sheet ID
C16_ChangedOnlyBySave == reg.last.changed => reg.last.action = "Save Sheet ID"
\* an identifier stored by a change is neither empty nor blank
C16_NeverBlank == reg.last.changed => Strip(reg.rows[reg.last.table].sheet_id) # ""
\* a save reported successful is what get_current_sheet_id returns
C16_ReportedSaveIsCurrent ==
    \A t \in LogicalTables :
        reg.reported[t] # None => get_current_sheet_id(reg.rows[t], FALSE) = reg.reported[t]

\* C16: the registry holds one identifier per logical table; it changes
\* only through Save Sheet ID, never to an empty or blank value, and after
\* a save of x for t reported successful, get_current_sheet_id(t) returns
\* x until the next save.
C16_RegistryFollowsSaves ==
    reg.pc = "ready" =>
        /\ C16_ChangedOnlyBySave
        /\ C16_NeverBlank
        /\ C16_ReportedSaveIsCurrent

\* the same, for a registry whose rows are present and whose updates do
\* not fail, and leaving aside the Process button
C16_ReportedSaveIsCurrentWhenStored ==
    (/\ reg.pc = "ready"
     /\ reg.last.action = "Save Sheet ID" /\ reg.last.message = "success"
     /\ reg.last.changed) =>
        get_current_sheet_id(reg.rows[reg.last.table], FALSE) = reg.reported[reg.last.table]

(***************************************************************************)
(* append_rolling_data on an existing worksheet, one gateway call at a     *)
(* time (lines 205-243): get_all_values, delete_rows, append_rows.  Each   *)
(* call in progress keeps what it read and decided; the worksheet is       *)
(* shared.  StepSpec runs one call, RaceSpec two calls whose steps         *)
(* interleave in any order.                                                *)
(***************************************************************************)
\* the order of the steps with a fault: append before delete
StepAfterAppendFirst(step) ==
    CASE step = "read" -> "append" [] step = "append" -> "delete" [] OTHER -> "done"

\* the order of the steps of one call
StepAfter(step) ==
    CASE step = "read" -> "delete" [] step = "delete" -> "append" [] OTHER -> "done"

\* the rows a call deletes, with a fault: counted again at the delete step
DeleteCountFresh(call, t) == RowsToDelete(Len(t), Len(call.rows), procs.max_rows)

\* the rows a call deletes: as decided from the row count it read
DeleteCount(call, t) == call.rows_to_delete

\* lines 206-207: current_data = worksheet.get_all_values()
ReadRows(p) ==
    /\ procs.pc = "running"
    /\ procs.calls[p].pc = "read"
    /\ procs' = [procs EXCEPT
                    !.calls[p].pc = StepAfter("read"),
                    !.calls[p].current_row_count = Len(table),
                    !.calls[p].rows_to_delete =
                        RowsToDelete(Len(table), Len(procs.calls[p].rows), procs.max_rows)]
    /\ UNCHANGED <<layout, reg, ops>>
    /\ UNCHANGED rollVars
    /\ UNCHANGED pivotVars

\* lines 218-236: the eviction, when there is one
DeleteRows(p) ==
    /\ procs.pc = "running"
    /\ procs.calls[p].pc = "delete"
    /\ LET n == DeleteCount(procs.calls[p], table)
       IN /\ table' = DeleteStep(table, n)
          /\ procs' = [procs EXCEPT
                          !.calls[p].pc = StepAfter("delete"),
                          !.calls[p].steps =
                              IF n > 0 THEN Append(@, "delete_rows") ELSE @,
                          !.peak = IF Len(table') > @ THEN Len(table') ELSE @]
    /\ UNCHANGED <<layout, reg, ops>>
    /\ UNCHANGED <<exists, nextId, last>>
    /\ UNCHANGED pivotVars

\* lines 239-242: worksheet.append_rows(data_to_add)
AppendRows(p) ==
    /\ procs.pc = "running"
    /\ procs.calls[p].pc = "append"
    /\ table' = append_rows(table, sanitize_dataframe(procs.calls[p].rows))
    /\ procs' = [procs EXCEPT
                    !.calls[p].pc = StepAfter("append"),
                    !.calls[p].steps = Append(@, "append_rows"),
                    !.peak = IF Len(table') > @ THEN Len(table') ELSE @]
    /\ UNCHANGED <<layout, reg, ops>>
    /\ UNCHANGED <<exists, nextId, last>>
    /\ UNCHANGED pivotVars

\* a call that has not read yet, for the rows first..first + n - 1
NewCall(first, n) ==
    [pc |-> "read", rows |-> DfRows(first, first + n - 1),
     current_row_count |-> 0, rows_to_delete |-> 0, steps |-> <<>>]

\* a worksheet of C rows (header and C - 1 data rows) and the calls of ns
InitCalls(ns) ==
    /\ \E C \in 1..MaxCap, max_rows \in 1..MaxCap :
          /\ table = <<Header>> \o sanitize_dataframe(DfRows(1, C - 1))
          /\ \E new \in [DOMAIN ns -> 1..MaxNew] :
                procs = [pc |-> "running", init |-> table, max_rows |-> max_rows,
                         peak |-> Len(table),
                         calls |-> [p \in DOMAIN ns |->
                                       NewCall(IF p = 1 THEN C ELSE C + new[1], new[p])]]
    /\ exists = TRUE /\ nextId = 1 /\ last = NoCall
    /\ layout = Idle /\ reg = Idle /\ ops = Idle
    /\ InitPivotIdle

InitStep == InitCalls(<<1>>)
InitRace == InitCalls(<<1, 2>>)

NextStep == \E p \in DOMAIN procs.calls : ReadRows(p) \/ DeleteRows(p) \/ AppendRows(p)

StepSpec == InitStep /\ [][NextStep]_vars
RaceSpec == InitRace /\ [][NextStep]_vars

\* one whole call on table t, nothing in between
SerialCall(t, rows, max_rows) ==
    append_rows(DeleteStep(t, RowsToDelete(Len(t), Len(rows), max_rows)),
                sanitize_dataframe(rows))

\* the tables the two serial orders of the two calls end with
SerialResults ==
    LET r1 == procs.calls[1].rows
        r2 == procs.calls[2].rows
        m == procs.max_rows
    IN {SerialCall(SerialCall(procs.init, r1, m), r2, m),
        SerialCall(SerialCall(procs.init, r2, m), r1, m)}

AllDone == procs.pc = "running" /\ \A p \in DOMAIN procs.calls : procs.calls[p].pc = "done"
TwoCalls == procs.pc = "running" /\ DOMAIN procs.calls = {1, 2}
\* both calls read the row count the table started with
SameRead == \A p \in DOMAIN procs.calls : procs.calls[p].current_row_count = Len(procs.init)
CallRows(p) == Len(procs.calls[p].rows)

\* C17: two interleaved calls can race.  When both read the same row count
\* C < max_rows and decide from it, with N1, N2 <= max_rows - 1 and
\* C + N1 + N2 > max_rows, the final table holds more than max_rows rows
\* and is the result of neither serial order of the two calls.
C17_SameReadUnderEvicts ==
    (/\ TwoCalls /\ AllDone /\ SameRead
     /\ Len(procs.init) < procs.max_rows
     /\ CallRows(1) <= procs.max_rows - 1 /\ CallRows(2) <= procs.max_rows - 1
     /\ Len(procs.init) + CallRows(1) + CallRows(2) > procs.max_rows) =>
        /\ Len(table) > procs.max_rows
        /\ table \notin SerialResults
        /\ \A t \in SerialResults : Len(t) = procs.max_rows

\* two calls that each fitted on their own and together overflow the table
C17_RaceOverflows ==
    /\ TwoCalls /\ AllDone /\ SameRead
    /\ procs.calls[1].rows_to_delete = 0 /\ procs.calls[2].rows_to_delete = 0
    /\ CallRows(1) <= procs.max_rows - 1 /\ CallRows(2) <= procs.max_rows - 1
    /\ Len(table) > procs.max_rows
    /\ table \notin SerialResults

\* a race in which a call evicts a row the other call has just appended
\* and the final table is that of no serial order
C17_EvictsJustAppended ==
    /\ TwoCalls /\ AllDone
    /\ table \notin SerialResults
    /\ \E p \in {1, 2} :
          /\ procs.calls[p].steps # <<>>
          /\ \E k \in DOMAIN procs.calls[p].rows :
                /\ \A i \in DOMAIN table : table[i].id # procs.calls[p].rows[k].id
                /\ \A t \in SerialResults :
                      \E i \in DOMAIN t : t[i].id = procs.calls[p].rows[k].id

\* C19: within one call the delete step comes before the append step, so
\* that from C <= max_rows rows and with N <= max_rows - 1 new rows no
\* state of the call holds more than max_rows rows.
C19_NoIntermediateOverflow ==
    (/\ procs.pc = "running" /\ DOMAIN procs.calls = {1}
     /\ Len(procs.init) <= procs.max_rows
     /\ CallRows(1) <= procs.max_rows - 1) =>
        /\ Len(table) <= procs.max_rows
        /\ procs.peak <= procs.max_rows
        /\ procs.calls[1].steps \in {<<>>, <<"delete_rows">>, <<"append_rows">>,
                                     <<"delete_rows", "append_rows">>}

\* a call between its delete step and its append step, rows evicted
C19_BetweenDeleteAndAppend ==
    /\ procs.pc = "running" /\ DOMAIN procs.calls = {1}
    /\ Len(procs.init) = procs.max_rows
    /\ CallRows(1) <= procs.max_rows - 1
    /\ procs.calls[1].pc = "append"
    /\ procs.calls[1].steps = <<"delete_rows">>
    /\ Len(table) = procs.max_rows - CallRows(1)

\* C18: when the append step fails after the delete step, the worksheet is
\* left with C - rows_to_delete rows (the evicted rows are not restored,
\* no new row is stored) and the caller gets the error.
C18_FailedAppendLeavesTableShort ==
    (Called /\ last.fail = "append") =>
        /\ last.result = "error" /\ last.message = "error"
        /\ Len(table) = PreCount - last.deleted
        /\ table = (IF PreCount = 0 THEN <<>> ELSE <<last.pre[1]>>)
                       \o SubSeq(last.pre, 2 + last.deleted, PreCount)
        /\ \A k \in DOMAIN table : \A j \in DOMAIN last.rows : table[k].id # last.rows[j].id

\* an append that failed after rows had been deleted
C18_RowsLostAfterFailedAppend ==
    /\ Called /\ last.fail = "append" /\ last.result = "error"
    /\ last.deleted >= 1
    /\ Len(table) < PreCount

RawDates ==
    {[kind |-> "valid", day |-> d, minute |-> 0] : d \in Days} \cup
    {[kind |-> "empty", day |-> 0, minute |-> 0],
     [kind |-> "malformed", day |-> 0, minute |-> 0]}

\* the raw dump worksheets of n rows
RawDumpsOfLen(n) ==
    {[columns |-> DumpColumns,
      rows |-> [i \in 1..n |-> DumpRow(100 + i, "Acme", f[i], "10")]] :
        f \in [1..n -> RawDates]}

\* pd.to_datetime with a fault: errors='coerce', what is no date becomes NaT
ToDatetimeCoerce(cell) ==
    IF cell.kind = "valid"
    THEN [raised |-> FALSE, value |-> [day |-> cell.day, minute |-> cell.minute]]
    ELSE [raised |-> FALSE, value |-> NaT]

\* pd.to_datetime of one cell (errors='raise'): an empty string is NaT,
\* text that is no date raises
ToDatetime(cell) ==
    CASE cell.kind = "valid" ->
             [raised |-> FALSE, value |-> [day |-> cell.day, minute |-> cell.minute]]
      [] cell.kind = "empty" -> [raised |-> FALSE, value |-> NaT]
      [] OTHER -> [raised |-> TRUE, value |-> NaT]

\* load_dump_sheet: the DataFrame of the worksheet, 'Created Date' parsed;
\* the exception of pd.to_datetime is not caught
LoadDumpSheet ==
    /\ pc = "load"
    /\ IF \E i \in DOMAIN df.rows : ToDatetime(df.rows[i]["Created Date"]).raised
       THEN pc' = "load_failed" /\ UNCHANGED df
       ELSE /\ pc' = "start"
            /\ df' = [df EXCEPT !.rows =
                        [i \in DOMAIN df.rows |->
                            [df.rows[i] EXCEPT !["Created Date"] = ToDatetime(@).value]]]
    /\ UNCHANGED <<args, breakdown, pivot>>
    /\ UNCHANGED rollVars
    /\ UNCHANGED extraVars

InitDump ==
    /\ \E n \in 0..MaxDf : df \in RawDumpsOfLen(n)
    /\ pc = "load"
    /\ args = [start_date |-> 0, end_date |-> 0, brand |-> ""]
    /\ breakdown = [columns |-> <<>>, index |-> <<>>, rows |-> <<>>]
    /\ pivot = <<>>
    /\ exists = FALSE /\ table = <<>> /\ nextId = 1 /\ last = NoCall
    /\ ExtraIdle

NextDump == LoadDumpSheet \/ Process

DumpSpec == InitDump /\ [][NextDump]_vars

\* once the pivot is made: the rows without a date are excluded and the
\* pivot is the sum over the rows that pass the filter
PivotOverRemainingRows ==
    (pc = "done") =>
        /\ \A i \in 1..Len(df.rows) : df.rows[i]["Created Date"] = NaT => ~Included(i)
        /\ \A i \in 1..Len(df.rows) :
              Included(i) <=> (DayInRange(i) /\ df.rows[i]["Customer Name"] = args.brand)
        /\ \A b \in DOMAIN pivot : pivot[b] = SumIncluded(Len(df.rows))

\* C23: a dump row whose creation date is malformed or missing does not
\* fail the pivot: the load does not raise, the row is excluded by the
\* date filter and the pivot is computed over the remaining rows.
C23_BadDateRowExcluded ==
    /\ pc # "load_failed"
    /\ PivotOverRemainingRows

\* the same, for missing dates alone: the load raises only on a date cell
\* that is no date
C23_MissingDateRowExcluded ==
    /\ (pc = "load_failed") =>
           \E i \in DOMAIN df.rows : df.rows[i]["Created Date"].kind = "malformed"
    /\ PivotOverRemainingRows

\* a pivot computed over a dump with a missing date
C23_PivotDespiteMissingDate ==
    /\ pc = "done"
    /\ \E i \in 1..Len(df.rows) : df.rows[i]["Created Date"] = NaT
    /\ \E i \in 1..Len(df.rows) : Included(i)
    /\ args.brand \in DOMAIN pivot

(***************************************************************************)
(* The Save Config button, pages/4_config.py, on the config collection     *)
(* of the document store.  A layout spec is its company name and its       *)
(* content, here the number of line gaps.  The collection is what fetch    *)
(* returns: None while the document is absent, else the list of specs.     *)
(***************************************************************************)
ConfigCompanies == {"Acme", "Zed", "Bolt"}

\* the list after the loop of lines 127-135, with a fault: always appended
SavedConfigsAppended(existing_configs, config) == Append(existing_configs, config)

\* lines 127-135: the first spec with the company name is replaced, else
\* the spec is appended
SavedConfigs(existing_configs, config) ==
    IF \E idx \in DOMAIN existing_configs :
          existing_configs[idx].company_name = config.company_name
    THEN LET idx == CHOOSE k \in DOMAIN existing_configs :
                       /\ existing_configs[k].company_name = config.company_name
                       /\ \A j \in 1..(k - 1) :
                             existing_configs[j].company_name # config.company_name
         IN [existing_configs EXCEPT ![idx] = config]
    ELSE Append(existing_configs, config)

\* the Save Config button: fetch, replace or append, upload.  Iterating
\* the None that fetch returns for an absent document raises TypeError;
\* an exception of the upload leaves the stored document as it was.
SaveConfig ==
    /\ ops.pc = "config"
    /\ \E company_name \in ConfigCompanies, line_gaps \in 0..MaxGaps,
          fail \in {"none", "upload"} :
          LET config == [company_name |-> company_name, line_gaps |-> line_gaps]
              call == [company_name |-> company_name, config |-> config, fail |-> fail,
                       pre |-> ops.configs]
          IN IF ops.configs.isNone
             THEN ops' = [ops EXCEPT !.call = call, !.result = "TypeError"]
             ELSE IF fail = "upload"
             THEN ops' = [ops EXCEPT !.call = call, !.result = "PyMongoError"]
             ELSE ops' = [ops EXCEPT
                             !.configs.data = SavedConfigs(ops.configs.data, config),
                             !.call = call, !.result = "ok"]
    /\ UNCHANGED <<layout, reg, procs>>
    /\ UNCHANGED rollVars
    /\ UNCHANGED pivotVars

InitConfig ==
    /\ \E isNone \in BOOLEAN :
          ops = [pc |-> "config", configs |-> [isNone |-> isNone, data |-> <<>>],
                 call |-> [company_name |-> "", config |-> [company_name |-> "", line_gaps |-> 0],
                           fail |-> "none", pre |-> [isNone |-> isNone, data |-> <<>>]],
                 result |-> ""]
    /\ layout = Idle /\ reg = Idle /\ procs = Idle
    /\ exists = FALSE /\ table = <<>> /\ nextId = 1 /\ last = NoCall
    /\ InitPivotIdle

NextConfig == SaveConfig

ConfigSpec == InitConfig /\ [][NextConfig]_vars

\* the positions of the specs of a company in a list
PositionsOf(data, company_name) == {k \in DOMAIN data : data[k].company_name = company_name}

\* the latest Save Config did what a save does: a spec of a known company
\* replaced in place, a spec of a new company appended
SaveReplacedOrAppended ==
    LET pre == ops.call.pre.data
        data == ops.configs.data
        config == ops.call.config
    IN /\ ~ops.configs.isNone
       /\ IF PositionsOf(pre, config.company_name) # {}
          THEN /\ Len(data) = Len(pre)
               /\ PositionsOf(data, config.company_name) = PositionsOf(pre, config.company_name)
               /\ \A k \in DOMAIN data :
                     data[k] = IF pre[k].company_name = config.company_name THEN config
                               ELSE pre[k]
          ELSE data = Append(pre, config)

\* C24: after any sequence of Save Config actions from an empty or absent
\* collection, the collection holds at most one spec per company name; a
\* save of a known name replaces that spec in place, a save of a new name
\* appends exactly one spec.
C24_OneSpecPerCompany ==
    (ops.pc = "config") =>
        /\ \A c \in ConfigCompanies : Cardinality(PositionsOf(ops.configs.data, c)) <= 1
        /\ (ops.call.company_name # "" /\ ops.call.fail = "none") => SaveReplacedOrAppended

\* the same, for a collection that exists (empty at the start)
C24_OneSpecPerCompanyWhenPresent ==
    (ops.pc = "config" /\ ~ops.configs.isNone) => C24_OneSpecPerCompany

(***************************************************************************)
(* The Create UTR Sheet button, pages/3_utr.py lines 75-143.  The world    *)
(* is the config collection and the selected company, the identifiers the  *)
(* registry holds for the pivot, UTR and 'final_sheet' tables, and the     *)
(* worksheets 'Breakdown: <company>' and 'UTR: <company>'.  The handler    *)
(* runs as one script run once the button is pressed; log records the      *)
(* stages it went through.                                                 *)
(***************************************************************************)
WorksheetStates == {"absent", "empty", "rows"}

\* the parameters of breakdown.load_sheet
LoadSheetParams == {"sheet_name"}

\* the keywords of the call of line 93
LoadSheetCall == {"sheet_name", "sheet_id"}

\* load_sheet as called: a keyword the function does not have raises
\* TypeError; else the worksheet is read from the sheet registered as
\* 'final_sheet', None when it cannot be opened, is absent or is empty
load_sheet(passed, w) ==
    IF ~(passed \subseteq LoadSheetParams) THEN [raised |-> "TypeError", df |-> "None"]
    ELSE IF Not(w.final_id) \/ w.final_ws # "rows" THEN [raised |-> "", df |-> "None"]
    ELSE [raised |-> "", df |-> "rows"]

\* the handler: the message it shows, the stages it completed and the
\* worksheet 'UTR: <company>' afterwards
CreateUtrOutcome(w) ==
    IF w.utr_id = None
    THEN [message |-> "Failed to load configurations", log |-> <<>>, utr_ws |-> w.utr_ws]
    ELSE IF Not(w.pivot_id) \/ Not(Strip(w.utr_id))
    THEN [message |-> "Please set the sheet ID", log |-> <<>>, utr_ws |-> w.utr_ws]
    ELSE LET loaded == load_sheet(LoadSheetCall, w)
             found == get_company_config([isNone |-> FALSE, data |-> w.configs], w.selected)
         IN IF loaded.raised # ""
            THEN [message |-> "An error occurred", log |-> <<>>, utr_ws |-> w.utr_ws]
            ELSE IF loaded.df = "None"
            THEN [message |-> "Breakdown sheet does not exist or is empty",
                  log |-> <<"load">>, utr_ws |-> w.utr_ws]
            ELSE IF found.raised # ""
            THEN [message |-> "Configuration error", log |-> <<"load">>, utr_ws |-> w.utr_ws]
            ELSE [message |-> "UTR sheet created successfully",
                  log |-> <<"load", "synthesize", "write">>, utr_ws |-> "rows"]

\* one run of the handler
CreateUtrSheet ==
    /\ ops.pc = "pressed"
    /\ LET o == CreateUtrOutcome(ops)
       IN ops' = [ops EXCEPT !.pc = "finished", !.message = o.message,
                             !.log = o.log, !.utr_ws = o.utr_ws]
    /\ UNCHANGED <<layout, reg, procs>>
    /\ UNCHANGED rollVars
    /\ UNCHANGED pivotVars

InitUtr ==
    /\ \E configs \in {<<"Acme">>, <<"Zed", "Acme">>}, pivot_id \in {None, "", "P1"},
          utr_id \in {None, " ", "U1"}, final_id \in {None, "F1"},
          breakdown_ws \in WorksheetStates, final_ws \in WorksheetStates,
          utr_ws \in {"absent", "rows"} :
         \E selected \in Range(configs) :
            ops = [pc |-> "pressed", configs |-> configs, selected |-> selected,
                   pivot_id |-> pivot_id, utr_id |-> utr_id, final_id |-> final_id,
                   breakdown_ws |-> breakdown_ws, final_ws |-> final_ws,
                   utr_ws |-> utr_ws, message |-> "", log |-> <<>>]
    /\ layout = Idle /\ reg = Idle /\ procs = Idle
    /\ exists = FALSE /\ table = <<>> /\ nextId = 1 /\ last = NoCall
    /\ InitPivotIdle

NextUtr == CreateUtrSheet

\* a pressed button is served: the script run is not postponed for ever
UtrSpec == InitUtr /\ [][NextUtr]_vars /\ WF_vars(CreateUtrSheet)

\* the button is pressed with both identifiers set, a layout spec for the
\* selected company, and the breakdown worksheet present with rows in the
\* sheet registered for the pivot table
UtrReady ==
    /\ ops.pc = "pressed"
    /\ ~Not(ops.pivot_id) /\ ops.utr_id # None /\ ~Not(Strip(ops.utr_id))
    /\ ops.selected \in Range(ops.configs)
    /\ ops.breakdown_ws = "rows"
UtrCompleted ==
    /\ ops.pc = "finished"
    /\ ops.log = <<"load", "synthesize", "write">>
    /\ ops.utr_ws = "rows"

\* C25: from such a state the Create UTR Sheet action eventually
\* completes: it loads the breakdown from the pivot sheet, synthesizes the
\* document and writes it to worksheet 'UTR: <company>', in that order.
C25_CreateUtrCompletes == UtrReady ~> UtrCompleted

\* what happens instead: no run of the handler gets past the load
C25_NeverPastLoad == (ops.pc = "finished") => ops.log = <<>>

\* the source rows that pass the date and brand filter
SourceIncluded == {i \in 1..Len(df.rows) :
                      DayInRange(i) /\ df.rows[i]["Customer Name"] = args.brand}

\* C21: the brand asked for appears in the pivot also when no row survives
\* the filter, with aggregate 0.
C21_AbsentBrandFilledWithZero ==
    (pc = "done") =>
        /\ args.brand \in DOMAIN pivot
        /\ SourceIncluded = {} => pivot[args.brand] = 0

\* what the pivot holds instead: an entry for the brand exactly when a row
\* survived the filter
C21_BrandPresentIffRowSurvives ==
    (pc = "done") => (args.brand \in DOMAIN pivot <=> SourceIncluded # {})

C26_HeaderAfterSuccess ==
    (last.result = "ok") => (table # <<>> /\ table[1] = Header)

\* the same, for calls on a worksheet that is absent or starts with the
\* header
C26_HeaderAfterSuccessUnlessEmpty ==
    (last.result = "ok" /\ (~last.pre_exists \/ (last.pre # <<>> /\ last.pre[1] = Header))) =>
        (table # <<>> /\ table[1] = Header)

=============================================================================
